---------------------------- MODULE Spec2Model ----------------------------
(***************************************************************************)
(* A model of the tailscale-localapi client (src/src/lib.rs): the facade   *)
(* LocalApi with its three operations, the two transport backends          *)
(* (UnixStreamClient, TcpWithPasswordClient), the detached connection task *)
(* each call spawns, and the PEM / JSON decoding of the response body.     *)
(*                                                                         *)
(* Text is a sequence of one-character strings, so that formatting,        *)
(* parsing and Base64 are computed character by character.                 *)
(***************************************************************************)
EXTENDS Integers, Sequences, FiniteSets, TLC

(***************************************************************************)
(* Bounds of the model.                                                    *)
(***************************************************************************)
\* callers that run concurrently in SpecConc and SpecLive
NCalls == 2
\* longest password of a TCP client, in characters
MaxPasswordLen == 2
\* most PEM blocks in one response body
MaxBlocks == 3

(***************************************************************************)
(* Text helpers.                                                           *)
(***************************************************************************)
RECURSIVE IndexOf(_, _, _)
\* the first position >= i of s holding ch, or 0
IndexOf(s, ch, i) ==
    IF i > Len(s) THEN 0
    ELSE IF s[i] = ch THEN i
    ELSE IndexOf(s, ch, i + 1)

SeqsUpTo(S, n) == UNION { [1..k -> S] : k \in 0..n }

(***************************************************************************)
(* Error, lib.rs:21-35.                                                    *)
(***************************************************************************)
Error ==
    { "IoError", "HyperError", "HttpError", "UnprocessableEntity",
      "ParsingError", "UnknownCertificateOrKey" }

Err(e) == [ok |-> FALSE, error |-> e]
Ok(v) == [ok |-> TRUE, value |-> v]

(***************************************************************************)
(* Base64, engine STANDARD_NO_PAD (lib.rs:197): the standard alphabet, no  *)
(* '=' padding on a final group of one or two bytes.                       *)
(***************************************************************************)
B64Alphabet ==
    << "A","B","C","D","E","F","G","H","I","J","K","L","M","N","O","P",
       "Q","R","S","T","U","V","W","X","Y","Z","a","b","c","d","e","f",
       "g","h","i","j","k","l","m","n","o","p","q","r","s","t","u","v",
       "w","x","y","z","0","1","2","3","4","5","6","7","8","9","+","/" >>

\* the characters a password is drawn from, with their UTF-8 byte
PasswordChars == { ":", "a", "z" }
CharCode == (":" :> 58) @@ ("a" :> 97) @@ ("z" :> 122)

Bytes(s) == [i \in 1..Len(s) |-> CharCode[s[i]]]

RECURSIVE Sextets(_)
\* the 6-bit groups of a byte string, the last group zero-filled
Sextets(bs) ==
    IF Len(bs) = 0 THEN << >>
    ELSE IF Len(bs) = 1 THEN
        << bs[1] \div 4, (bs[1] % 4) * 16 >>
    ELSE IF Len(bs) = 2 THEN
        << bs[1] \div 4,
           (bs[1] % 4) * 16 + bs[2] \div 16,
           (bs[2] % 16) * 4 >>
    ELSE
        << bs[1] \div 4,
           (bs[1] % 4) * 16 + bs[2] \div 16,
           (bs[2] % 16) * 4 + bs[3] \div 64,
           bs[3] % 64 >> \o Sextets(SubSeq(bs, 4, Len(bs)))

\* a mutant: the padded engine (STANDARD), which fills the last group with '='
EncodePadded(s) ==
    LET g == Sextets(Bytes(s))
        body == [i \in 1..Len(g) |-> B64Alphabet[g[i] + 1]]
    IN  IF Len(g) % 4 = 2 THEN body \o << "=", "=" >>
        ELSE IF Len(g) % 4 = 3 THEN body \o << "=" >>
        ELSE body

\* base64::engine::general_purpose::STANDARD_NO_PAD.encode
EncodeNoPad(s) ==
    LET g == Sextets(Bytes(s))
    IN  [i \in 1..Len(g) |-> B64Alphabet[g[i] + 1]]


(***************************************************************************)
(* Request targets.  The facade formats a target as text and parses it as  *)
(* a Uri (lib.rs:80-82, 115, 128-130).                                     *)
(***************************************************************************)
StatusPath ==
    << "/","l","o","c","a","l","a","p","i","/","v","0","/",
       "s","t","a","t","u","s" >>
WhoisPrefix ==
    << "/","l","o","c","a","l","a","p","i","/","v","0","/",
       "w","h","o","i","s","?","a","d","d","r","=" >>
CertPrefix ==
    << "/","l","o","c","a","l","a","p","i","/","v","0","/",
       "c","e","r","t","/" >>
CertSuffix == << "?","t","y","p","e","=","p","a","i","r" >>

\* format!("/localapi/v0/cert/{domain}?type=pair")
FormatCert(domain) == CertPrefix \o domain \o CertSuffix

\* Display of std::net::SocketAddr: ip:port for V4, [ip]:port for V6
AddrToString(address) ==
    IF address.family = "V4"
    THEN address.ip \o << ":" >> \o address.port
    ELSE << "[" >> \o address.ip \o << "]", ":" >> \o address.port

\* format!("/localapi/v0/whois?addr={address}")
FormatWhois(address) == WhoisPrefix \o AddrToString(address)

Letters ==
    { "a","b","c","d","e","f","g","h","i","j","k","l","m",
      "n","o","p","q","r","s","t","u","v","w","x","y","z" }
Digits == { "0","1","2","3","4","5","6","7","8","9" }
\* the characters of the model a Uri accepts in a path
UriPathChars == Letters \cup Digits \cup { "/", ".", ":", "=", "[", "]", "-", "%" }
\* and in a query, where a further '?' is allowed
UriQueryChars == UriPathChars \cup { "?" }

\* <Uri as FromStr>::from_str on an origin-form target (one that starts
\* with '/'): the path runs to the first '?', the query to the end; a '#'
\* ends the target and the fragment after it is dropped; any character
\* outside the accepted ones is an InvalidUri error.
UriParse(s) ==
    LET hash == IndexOf(s, "#", 1)
        kept == IF hash = 0 THEN s ELSE SubSeq(s, 1, hash - 1)
        q    == IndexOf(kept, "?", 1)
        pathEnd == IF q = 0 THEN Len(kept) ELSE q - 1
        valid ==
            /\ Len(s) > 0
            /\ \A i \in 1..pathEnd : kept[i] \in UriPathChars
            /\ \A i \in (pathEnd + 2)..Len(kept) : kept[i] \in UriQueryChars
    IN  IF valid THEN Ok(kept) ELSE Err("InvalidUri")

(***************************************************************************)
(* Requests, lib.rs:148-157 and 189-206.                                   *)
(***************************************************************************)
NoAuthorization == << >>
HostValue ==
    << "l","o","c","a","l","-","t","a","i","l","s","c","a","l","e","d",
       ".","s","o","c","k" >>
BasicPrefix == << "B","a","s","i","c"," " >>

\* a mutant: the Unix backend sends the Authorization header of a TCP client
\* with an empty password
UnixGetWithAuthorization(uri) ==
    [ method |-> "GET", host |-> HostValue, uri |-> uri,
      authorization |-> BasicPrefix \o EncodeNoPad(<< ":" >>) ]

\* the request UnixStreamClient::get builds
UnixGet(uri) ==
    [ method |-> "GET", host |-> HostValue, uri |-> uri,
      authorization |-> NoAuthorization ]

\* the request TcpWithPasswordClient::get builds
TcpGet(password, uri) ==
    [ method |-> "GET", host |-> HostValue, uri |-> uri,
      authorization |-> BasicPrefix \o EncodeNoPad(<< ":" >> \o password) ]

\* LocalApiClient::get, dispatched on the backend the client was built with
ClientGet(cl, uri) ==
    IF cl.backend = "unix" THEN UnixGet(uri) ELSE TcpGet(cl.password, uri)

(***************************************************************************)
(* Response bodies.  A body is JSON text of some shape, or PEM text: a     *)
(* sequence of blocks, each with the label of its BEGIN line and its data  *)
(* (here the block's position in the body, so that blocks are told apart). *)
(***************************************************************************)
CertLabel == "CERTIFICATE"
KeyLabels == { "EC PRIVATE KEY", "PRIVATE KEY", "RSA PRIVATE KEY" }
\* a label rustls_pemfile has an Item for and certificate_pair has no arm for
CrlLabel == "X509 CRL"
\* a label rustls_pemfile has no Item for
ForeignLabel == "DH PARAMETERS"
PemLabels == { CertLabel, CrlLabel, ForeignLabel } \cup KeyLabels

JsonBody(shape) == [fmt |-> "json", shape |-> shape, blocks |-> << >>]
PemBody(labels) ==
    [ fmt |-> "pem", shape |-> "none",
      blocks |-> [i \in 1..Len(labels) |-> [label |-> labels[i], data |-> i]] ]

JsonBodies == { JsonBody(sh) : sh \in { "Status", "Whois", "malformed" } }
PemBodies == { PemBody(ls) : ls \in SeqsUpTo(PemLabels, MaxBlocks) }
PairBody == PemBody(<< "CERTIFICATE", "PRIVATE KEY" >>)

\* the labels rustls_pemfile has an Item for
KnownLabels == { CertLabel, CrlLabel } \cup KeyLabels

\* the Item rustls_pemfile::read_one makes of a block of a known label
ItemOf(block) ==
    [ kind |-> CASE block.label = "CERTIFICATE" -> "X509Certificate"
                 [] block.label = "RSA PRIVATE KEY" -> "RSAKey"
                 [] block.label = "PRIVATE KEY" -> "PKCS8Key"
                 [] block.label = "EC PRIVATE KEY" -> "ECKey"
                 [] block.label = "X509 CRL" -> "Crl",
      data |-> block.data ]

\* rustls_pemfile::read_all (lib.rs:87): the Items of the body's blocks in
\* order; a block whose label it does not know is passed over, and text
\* without BEGIN lines (JSON) has no blocks
ReadAll(body) ==
    LET known == SelectSeq(body.blocks, LAMBDA b : b.label \in KnownLabels)
    IN  [i \in 1..Len(known) |-> ItemOf(known[i])]

\* a mutant: the first key parsed is kept instead of the last
FirstKey(keys) == Head(keys)

\* private_keys.pop() (lib.rs:105) on a non-empty vector
PopKey(keys) == keys[Len(keys)]

\* the PEM path of certificate_pair, lib.rs:87-108
DecodePair(body) ==
    LET items == ReadAll(body)
        recognised(it) == it.kind \in { "ECKey", "PKCS8Key", "RSAKey", "X509Certificate" }
        certificates == SelectSeq(items, LAMBDA it : it.kind = "X509Certificate")
        private_keys == SelectSeq(items, LAMBDA it : it.kind # "X509Certificate")
    IN  IF \E i \in 1..Len(items) : ~recognised(items[i])
        THEN Err("UnknownCertificateOrKey")
        ELSE IF Len(private_keys) = 0
        THEN Err("UnknownCertificateOrKey")
        ELSE Ok([ private_key |-> PopKey(private_keys).data,
                  certificates |-> [i \in 1..Len(certificates) |-> certificates[i].data] ])

\* serde_json::de::from_reader into the operation's type (lib.rs:118, 134)
DecodeJson(body, shape) ==
    IF body.fmt = "json" /\ body.shape = shape
    THEN Ok([type |-> shape])
    ELSE Err("ParsingError")

\* a mutant: status() decodes into the Whois type
DecodeStatusAsWhois(operation, body) ==
    CASE operation = "status" -> DecodeJson(body, "Whois")
      [] operation = "whois" -> DecodeJson(body, "Whois")
      [] operation = "certificate_pair" -> DecodePair(body)

\* what each operation does with the buffered body
Decode(operation, body) ==
    CASE operation = "status" -> DecodeJson(body, "Status")
      [] operation = "whois" -> DecodeJson(body, "Whois")
      [] operation = "certificate_pair" -> DecodePair(body)

(***************************************************************************)
(* The inputs the model draws from.                                        *)
(***************************************************************************)
Callers == 1..NCalls
\* the caller of Spec, where one call is followed through every input
Solo == { 1 }

Clients ==
    { [backend |-> "unix", password |-> << >>] } \cup
    { [backend |-> "tcp", password |-> p] : p \in SeqsUpTo(PasswordChars, MaxPasswordLen) }

\* domains a caller may pass: a name, one with a space, one with a '#'
Domains ==
    { << "n", ".", "t", "s" >>, << "a", " ", "b" >>, << "a", "#", "b" >> }

Addresses ==
    { [family |-> "V4", ip |-> << "1", ".", "2", ".", "3", ".", "4" >>, port |-> << "8", "0" >>],
      [family |-> "V6", ip |-> << ":", ":", "1" >>, port |-> << "8", "0" >>] }

StatusOK == 200
StatusCodes == { 200, 204, 301, 404, 500 }

\* the bodies the daemon answers with in Spec and SpecConc: JSON of each
\* shape and one PEM body
SampleBodies == JsonBodies \cup { PairBody }

\* the clients of SpecPem, SpecConc and SpecLive: one of each backend
BackendClients ==
    { [backend |-> "unix", password |-> << >>],
      [backend |-> "tcp", password |-> << "a" >>] }

NoArgument == << >>
NoRequest == [method |-> "none"]
NoResponse == [status |-> 0]
NoResult == [pending |-> TRUE]

(***************************************************************************)
(* State.                                                                  *)
(***************************************************************************)
VARIABLES
    client,     \* the LocalApi's transport: backend and (TCP) password
    op,         \* per caller: the operation it called, or "none"
    arg,        \* per caller: the domain or address it passed
    pc,         \* per caller: where its call stands
    request,    \* per caller: the Request passed to request()
    conn,       \* per caller: the connection of its call and the task driving it
    response,   \* per caller: the response head and body the daemon sent
    buffered,   \* per caller: whether the body was aggregated and decoded
    result,     \* per caller: what the operation returned
    attempts,   \* per caller: connects tried
    opened,     \* connections opened so far
    spawned,    \* background tasks spawned so far
    logged      \* "Error in connection" lines printed so far

vars ==
    << client, op, arg, pc, request, conn, response, buffered, result,
       attempts, opened, spawned, logged >>

Init ==
    /\ client \in Clients
    /\ op = [c \in Callers |-> "none"]
    /\ arg = [c \in Callers |-> NoArgument]
    /\ pc = [c \in Callers |-> "idle"]
    /\ request = [c \in Callers |-> NoRequest]
    /\ conn = [c \in Callers |-> "none"]
    /\ response = [c \in Callers |-> NoResponse]
    /\ buffered = [c \in Callers |-> FALSE]
    /\ result = [c \in Callers |-> NoResult]
    /\ attempts = [c \in Callers |-> 0]
    /\ opened = 0
    /\ spawned = 0
    /\ logged = 0

(***************************************************************************)
(* The facade's operations up to the first await: the target is formatted  *)
(* and parsed (unwrap: a parse error panics), get() builds the request and *)
(* calls request(), which awaits the connect.                              *)
(***************************************************************************)
Call(c, operation, argument, target) ==
    LET uri == UriParse(target)
    IN  /\ pc[c] = "idle"
        /\ op' = [op EXCEPT ![c] = operation]
        /\ arg' = [arg EXCEPT ![c] = argument]
        /\ IF uri.ok
           THEN /\ request' = [request EXCEPT ![c] = ClientGet(client, uri.value)]
                /\ pc' = [pc EXCEPT ![c] = "connect"]
           ELSE /\ pc' = [pc EXCEPT ![c] = "panicked"]
                /\ UNCHANGED request
        /\ UNCHANGED << client, conn, response, buffered, result, attempts,
                        opened, spawned, logged >>

\* LocalApi::status, lib.rs:112-116
CallStatus(c) == Call(c, "status", NoArgument, StatusPath)

\* LocalApi::whois, lib.rs:124-132
CallWhois(c) ==
    \E address \in Addresses : Call(c, "whois", address, FormatWhois(address))

\* LocalApi::certificate_pair, lib.rs:76-84
CallCertificatePair(c) ==
    \E domain \in Domains : Call(c, "certificate_pair", domain, FormatCert(domain))

Finish(c, r) ==
    /\ result' = [result EXCEPT ![c] = r]
    /\ pc' = [pc EXCEPT ![c] = "done"]

(***************************************************************************)
(* request(), lib.rs:161-177 and 210-228.                                  *)
(***************************************************************************)
\* a mutant: a failed connect is tried again
ConnectErrRetry(c) ==
    /\ pc[c] = "connect"
    /\ attempts[c] < 2
    /\ attempts' = [attempts EXCEPT ![c] = @ + 1]
    /\ UNCHANGED << client, op, arg, pc, request, conn, response, buffered,
                    result, opened, spawned, logged >>

\* UnixStream::connect / TcpSocket::connect succeeds
ConnectOk(c) ==
    /\ pc[c] = "connect"
    /\ attempts' = [attempts EXCEPT ![c] = @ + 1]
    /\ conn' = [conn EXCEPT ![c] = "open"]
    /\ opened' = opened + 1
    /\ pc' = [pc EXCEPT ![c] = "handshake"]
    /\ UNCHANGED << client, op, arg, request, response, buffered, result,
                    spawned, logged >>

\* the connect fails: `?` returns Error::IoError
ConnectErr(c) ==
    /\ pc[c] = "connect"
    /\ attempts' = [attempts EXCEPT ![c] = @ + 1]
    /\ Finish(c, Err("IoError"))
    /\ UNCHANGED << client, op, arg, request, conn, response, buffered,
                    opened, spawned, logged >>

\* the handshake succeeds: the connection task is spawned and send_request
\* is called with the request
HandshakeOk(c) ==
    /\ pc[c] = "handshake"
    /\ conn' = [conn EXCEPT ![c] = "driving"]
    /\ spawned' = spawned + 1
    /\ pc' = [pc EXCEPT ![c] = "send"]
    /\ UNCHANGED << client, op, arg, request, response, buffered, result,
                    attempts, opened, logged >>

\* the handshake fails: `?` returns Error::HyperError and the stream is dropped
HandshakeErr(c) ==
    /\ pc[c] = "handshake"
    /\ conn' = [conn EXCEPT ![c] = "dropped"]
    /\ Finish(c, Err("HyperError"))
    /\ UNCHANGED << client, op, arg, request, response, buffered, attempts,
                    opened, spawned, logged >>

\* a mutant of the status check: every status passes
AnyStatusPasses(status) == TRUE

\* response.status() == 200, lib.rs:172
StatusPasses(status) == status = StatusOK

\* send_request returns the response head: the status is checked
SendReturn(c) ==
    /\ pc[c] = "send"
    /\ response[c] # NoResponse
    /\ IF StatusPasses(response[c].status)
       THEN /\ pc' = [pc EXCEPT ![c] = "buffer"]
            /\ UNCHANGED result
       ELSE Finish(c, Err("UnprocessableEntity"))
    /\ UNCHANGED << client, op, arg, request, conn, response, buffered,
                    attempts, opened, spawned, logged >>

\* a mutant: a connection lost before the response is taken for a success
SendErrSwallowed(c) ==
    /\ pc[c] = "send"
    /\ response[c] = NoResponse
    /\ conn[c] = "failed"
    /\ Finish(c, Ok([type |-> "Status"]))
    /\ UNCHANGED << client, op, arg, request, conn, response, buffered,
                    attempts, opened, spawned, logged >>

\* the connection ended before a response: send_request returns a
\* hyper::Error and `?` returns Error::HyperError
SendErr(c) ==
    /\ pc[c] = "send"
    /\ response[c] = NoResponse
    /\ conn[c] = "failed"
    /\ Finish(c, Err("HyperError"))
    /\ UNCHANGED << client, op, arg, request, conn, response, buffered,
                    attempts, opened, spawned, logged >>

\* hyper::body::aggregate returns the whole body and the operation decodes
\* it (lib.rs:86-108, 117-120, 133-136)
BufferReturn(c) ==
    /\ pc[c] = "buffer"
    /\ response[c].complete
    /\ buffered' = [buffered EXCEPT ![c] = TRUE]
    /\ Finish(c, Decode(op[c], response[c].body))
    /\ UNCHANGED << client, op, arg, request, conn, response, attempts,
                    opened, spawned, logged >>

\* the connection ended before the whole body came: aggregate returns a
\* hyper::Error and `?` returns Error::HyperError
BufferErr(c) ==
    /\ pc[c] = "buffer"
    /\ ~response[c].complete
    /\ conn[c] = "failed"
    /\ Finish(c, Err("HyperError"))
    /\ UNCHANGED << client, op, arg, request, conn, response, buffered,
                    attempts, opened, spawned, logged >>

(***************************************************************************)
(* The spawned task (lib.rs:165-169, 216-220) and the daemon behind it.    *)
(***************************************************************************)
\* the daemon answers the request: the task hands the head to send_request
Respond(c, status, body) ==
    /\ pc[c] = "send"
    /\ conn[c] = "driving"
    /\ response[c] = NoResponse
    /\ response' = [response EXCEPT ![c] =
                      [status |-> status, body |-> body, complete |-> FALSE]]
    /\ UNCHANGED << client, op, arg, pc, request, conn, buffered, result,
                    attempts, opened, spawned, logged >>

\* any status, with a body of either format
DaemonResponds(c) ==
    \E status \in StatusCodes :
        \E body \in SampleBodies : Respond(c, status, body)

\* a 200 with PEM text: every sequence of up to MaxBlocks blocks
DaemonRespondsPem(c) ==
    \E body \in PemBodies : Respond(c, StatusOK, body)

\* a live daemon: a 200 with a well-formed status body
DaemonRespondsLive(c) == Respond(c, StatusOK, JsonBody("Status"))

\* a daemon that refuses: a status other than 200
DaemonRejects(c) ==
    \E status \in StatusCodes \ { StatusOK } : Respond(c, status, JsonBody("Status"))

\* the task hands the rest of the body to the response's body stream
DeliverBody(c) ==
    /\ conn[c] = "driving"
    /\ response[c] # NoResponse
    /\ ~response[c].complete
    /\ response' = [response EXCEPT ![c].complete = TRUE]
    /\ UNCHANGED << client, op, arg, pc, request, conn, buffered, result,
                    attempts, opened, spawned, logged >>

\* connection.await returns Err: the task prints it and ends
ConnFail(c) ==
    /\ conn[c] = "driving"
    /\ conn' = [conn EXCEPT ![c] = "failed"]
    /\ logged' = logged + 1
    /\ UNCHANGED << client, op, arg, pc, request, response, buffered, result,
                    attempts, opened, spawned >>

\* connection.await returns Ok once the call has let go of the connection
ConnFinish(c) ==
    /\ conn[c] = "driving"
    /\ pc[c] = "done"
    /\ conn' = [conn EXCEPT ![c] = "finished"]
    /\ UNCHANGED << client, op, arg, pc, request, response, buffered, result,
                    attempts, opened, spawned, logged >>

(***************************************************************************)
(* Specifications.                                                         *)
(***************************************************************************)
\* what a call does after the facade has called get(), whatever the daemon
\* and the connection do
Transport(c) ==
    \/ ConnectOk(c)
    \/ ConnectErr(c)
    \/ HandshakeOk(c)
    \/ HandshakeErr(c)
    \/ DeliverBody(c)
    \/ SendReturn(c)
    \/ SendErr(c)
    \/ BufferReturn(c)
    \/ BufferErr(c)
    \/ ConnFail(c)
    \/ ConnFinish(c)

\* one call, followed through every client, operation, argument and status
Next ==
    \E c \in Solo :
        \/ CallStatus(c)
        \/ CallWhois(c)
        \/ CallCertificatePair(c)
        \/ DaemonResponds(c)
        \/ Transport(c)

Spec == Init /\ [][Next]_vars

\* one certificate_pair call, followed through every PEM body
InitPem == Init /\ client \in BackendClients

NextPem ==
    \E c \in Solo :
        \/ CallCertificatePair(c)
        \/ DaemonRespondsPem(c)
        \/ Transport(c)

SpecPem == InitPem /\ [][NextPem]_vars

\* NCalls callers call status() on the same client at once
NextConc ==
    \E c \in Callers :
        \/ CallStatus(c)
        \/ DaemonRespondsLive(c)
        \/ DaemonRejects(c)
        \/ Transport(c)

SpecConc == InitPem /\ [][NextConc]_vars

\* the same against a live daemon: connects and handshakes succeed, every
\* request is answered and no connection is lost
NextLive ==
    \E c \in Callers :
        \/ CallStatus(c)
        \/ ConnectOk(c)
        \/ HandshakeOk(c)
        \/ DaemonRespondsLive(c)
        \/ DeliverBody(c)
        \/ SendReturn(c)
        \/ BufferReturn(c)
        \/ ConnFinish(c)

SpecLive == InitPem /\ [][NextLive]_vars /\ WF_vars(NextLive)

(***************************************************************************)
(* What the properties below speak of.                                     *)
(***************************************************************************)
\* the call of c passed its request to send_request
Sent(c) == conn[c] \in { "driving", "failed", "finished" }

\* the call of c got a response head from the daemon
Answered(c) == response[c] # NoResponse

Chars(s) == { s[i] : i \in 1..Len(s) }

\* an HTTP Basic credential read back as a server reads it (RFC 7617):
\* the scheme, then Base64 without padding, then user ":" password split at
\* the first colon
B64Index(ch) == CHOOSE i \in 1..64 : B64Alphabet[i] = ch

RECURSIVE Unsextets(_)
Unsextets(g) ==
    IF Len(g) < 2 THEN << >>
    ELSE IF Len(g) = 2 THEN << g[1] * 4 + g[2] \div 16 >>
    ELSE IF Len(g) = 3 THEN
        << g[1] * 4 + g[2] \div 16, (g[2] % 16) * 16 + g[3] \div 4 >>
    ELSE
        << g[1] * 4 + g[2] \div 16,
           (g[2] % 16) * 16 + g[3] \div 4,
           (g[3] % 4) * 64 + g[4] >> \o Unsextets(SubSeq(g, 5, Len(g)))

CharOfByte(b) ==
    IF \E ch \in PasswordChars : CharCode[ch] = b
    THEN CHOOSE ch \in PasswordChars : CharCode[ch] = b
    ELSE "?"

ReadBasic(header) ==
    LET cred == SubSeq(header, 7, Len(header))
        wellFormed ==
            /\ Len(header) >= 6
            /\ SubSeq(header, 1, 6) = << "B", "a", "s", "i", "c", " " >>
            /\ \A i \in 1..Len(cred) : \E k \in 1..64 : B64Alphabet[k] = cred[i]
            /\ Len(cred) % 4 # 1
        bytes == Unsextets([i \in 1..Len(cred) |-> B64Index(cred[i]) - 1])
        text == [i \in 1..Len(bytes) |-> CharOfByte(bytes[i])]
        colon == IndexOf(text, ":", 1)
    IN  IF wellFormed /\ colon > 0
        THEN [ ok |-> TRUE,
               username |-> SubSeq(text, 1, colon - 1),
               password |-> SubSeq(text, colon + 1, Len(text)) ]
        ELSE [ ok |-> FALSE ]

\* the target each operation is documented to request
DocumentedTarget(c) ==
    CASE op[c] = "status" -> StatusPath
      [] op[c] = "whois" -> WhoisPrefix \o AddrToString(arg[c])
      [] op[c] = "certificate_pair" -> CertPrefix \o arg[c] \o CertSuffix

\* the positions of a body's blocks that hold keys, and certificates
KeyPositions(body) ==
    { i \in 1..Len(body.blocks) : body.blocks[i].label \in KeyLabels }
CertPositions(body) ==
    { i \in 1..Len(body.blocks) : body.blocks[i].label = CertLabel }
\* every block is a certificate or a key of a recognised encoding
AllRecognised(body) ==
    \A i \in 1..Len(body.blocks) : body.blocks[i].label \in KeyLabels \cup { CertLabel }

RECURSIVE Ascending(_)
\* a set of numbers as an ascending sequence
Ascending(S) ==
    IF S = { } THEN << >>
    ELSE LET least == CHOOSE x \in S : \A y \in S : x <= y
         IN  << least >> \o Ascending(S \ { least })

Greatest(S) == CHOOSE x \in S : \A y \in S : y <= x

\* the call of c buffered a 200 response and decoded its body
Decoded(c) == pc[c] = "done" /\ buffered[c]

(***************************************************************************)
(* C1.  On either backend and for each operation, a response whose status  *)
(* is not 200 makes the call return Error::UnprocessableEntity, whatever   *)
(* the body, and the body is never buffered or decoded.                    *)
(***************************************************************************)
C1_NonOkIsUnprocessable ==
    \A c \in Callers :
        (Answered(c) /\ response[c].status # 200) =>
            /\ pc[c] \in { "send", "done" }
            /\ ~buffered[c]
            /\ pc[c] = "done" => result[c] = Err("UnprocessableEntity")

C1_Witness ==
    \E c \in Callers :
        /\ client.backend = "tcp"
        /\ op[c] = "certificate_pair"
        /\ pc[c] = "done"
        /\ Answered(c)
        /\ response[c].status = 204
        /\ response[c].body = PairBody
        /\ result[c] = Err("UnprocessableEntity")

(***************************************************************************)
(* C2.  Every request a TCP client built with password p sends carries     *)
(* Authorization: "Basic " and the unpadded Base64 of ":" + p; read back,  *)
(* the header gives an empty username and the password p.                  *)
(***************************************************************************)
C2_BasicAuthRoundTrip ==
    \A c \in Callers :
        (Sent(c) /\ client.backend = "tcp") =>
            /\ "=" \notin Chars(request[c].authorization)
            /\ ReadBasic(request[c].authorization) =
                   [ok |-> TRUE, username |-> << >>, password |-> client.password]

C2_Witness ==
    \E c \in Callers :
        /\ Sent(c)
        /\ client.backend = "tcp"
        /\ client.password = << ":" >>
        /\ request[c].authorization =
               << "B", "a", "s", "i", "c", " ", "O", "j", "o" >>

(***************************************************************************)
(* C3.  As claimed: every request sent is a GET whose Host header is       *)
(* local-daemon.sock on both backends, and the Unix backend sends no       *)
(* Authorization header.                                                   *)
(***************************************************************************)
C3_HostIsLocalDaemonSock ==
    \A c \in Callers :
        Sent(c) =>
            /\ request[c].method = "GET"
            /\ request[c].host =
                   << "l","o","c","a","l","-","d","a","e","m","o","n",
                      ".","s","o","c","k" >>
            /\ client.backend = "unix" => request[c].authorization = NoAuthorization

(***************************************************************************)
(* C3 as amended.  Every request sent is a GET whose Host header is        *)
(* local-tailscaled.sock on both backends, and the Unix backend sends no   *)
(* Authorization header.                                                   *)
(***************************************************************************)
C3_HostIsLocalTailscaledSock ==
    \A c \in Callers :
        Sent(c) =>
            /\ request[c].method = "GET"
            /\ request[c].host =
                   << "l","o","c","a","l","-","t","a","i","l","s","c","a","l","e","d",
                      ".","s","o","c","k" >>
            /\ client.backend = "unix" => request[c].authorization = NoAuthorization

C3_Witness ==
    \E c \in Callers :
        /\ Sent(c)
        /\ client.backend = "unix"
        /\ op[c] = "whois"
        /\ request[c].authorization = NoAuthorization

(***************************************************************************)
(* C4.  A 200 body made of certificate and key blocks only, with at least  *)
(* one key, gives the certificates in the order of the body and, as the    *)
(* private key, the last key block of the body.                            *)
(***************************************************************************)
C4_CertsInOrderLastKeyWins ==
    \A c \in Callers :
        LET body == response[c].body
        IN  ( /\ Decoded(c)
              /\ AllRecognised(body)
              /\ KeyPositions(body) # { } ) =>
                result[c] =
                    Ok([ private_key |-> body.blocks[Greatest(KeyPositions(body))].data,
                         certificates |->
                             LET at == Ascending(CertPositions(body))
                             IN  [i \in 1..Len(at) |-> body.blocks[at[i]].data] ])

C4_Witness ==
    \E c \in Callers :
        /\ Decoded(c)
        /\ response[c].body =
               PemBody(<< "RSA PRIVATE KEY", "CERTIFICATE", "EC PRIVATE KEY" >>)
        /\ result[c] = Ok([private_key |-> 3, certificates |-> << 2 >>])

(***************************************************************************)
(* C5.  As claimed: certificate_pair fails with UnknownCertificateOrKey    *)
(* whenever the 200 body has no key block, and whenever it has a block of  *)
(* any type other than certificate, EC key, PKCS#8 key or RSA key, valid   *)
(* keys and certificates beside it or not.                                 *)
(***************************************************************************)
C5_UnknownBlockIsFatal ==
    \A c \in Callers :
        LET body == response[c].body
        IN  ( /\ Decoded(c)
              /\ op[c] = "certificate_pair"
              /\ \/ KeyPositions(body) = { }
                 \/ ~AllRecognised(body) ) =>
                result[c] = Err("UnknownCertificateOrKey")

(***************************************************************************)
(* C6.  As claimed: every call of get, failed or not, opens exactly one    *)
(* connection and starts exactly one background task, so that k finished   *)
(* calls have opened k connections and started k tasks.                    *)
(***************************************************************************)
C6_OneConnectionOneTaskPerCall ==
    LET finished == { c \in Callers : pc[c] = "done" }
    IN  /\ \A c \in finished : attempts[c] = 1 /\ Sent(c)
        /\ finished = Callers =>
               opened = Cardinality(finished) /\ spawned = Cardinality(finished)

(***************************************************************************)
(* C6 as amended.  Every call of get tries exactly one connect and never a *)
(* second.  A call whose connect fails (IoError) opens no connection and   *)
(* starts no task; one whose handshake fails opens one connection and      *)
(* starts no task; every other call opens exactly one connection and       *)
(* starts exactly one task.  So k calls open at most k connections and     *)
(* start at most k tasks, each its own call's.                             *)
(***************************************************************************)
C6_AtMostOneConnectionOneTaskPerCall ==
    LET finished == { c \in Callers : pc[c] = "done" }
        connected == { c \in Callers : conn[c] # "none" }
        driven == { c \in Callers : Sent(c) }
    IN  /\ \A c \in Callers : attempts[c] <= 1
        /\ \A c \in Callers : pc[c] \notin { "idle", "connect" } => attempts[c] = 1
        /\ opened = Cardinality(connected)
        /\ spawned = Cardinality(driven)
        /\ \A c \in finished :
               /\ result[c] = Err("IoError") <=> conn[c] = "none"
               /\ conn[c] = "dropped" => result[c] = Err("HyperError")
               /\ (result[c].ok \/ result[c] = Err("UnprocessableEntity")) => Sent(c)

C6_Witness ==
    /\ \A c \in Callers : pc[c] = "done"
    /\ \E c \in Callers : result[c] = Err("IoError")
    /\ \E c \in Callers : result[c] = Ok([type |-> "Status"])
    /\ opened < NCalls
    /\ spawned < NCalls

(***************************************************************************)
(* C7.  As claimed: whatever domain or address the caller passes, every    *)
(* failure of a call is returned as an Error; no call panics.              *)
(***************************************************************************)
C7_NoCallPanics ==
    \A c \in Callers : pc[c] # "panicked"

(***************************************************************************)
(* C8.  NCalls calls of status() at once on one client, against a daemon   *)
(* that answers every request with 200 and a well-formed status body: in   *)
(* every interleaving each call that returns returns the decoded status,   *)
(* each call has a connection of its own, and no call is left unable to    *)
(* go on.                                                                  *)
(***************************************************************************)
C8_ConcurrentStatusAllSucceed ==
    /\ \A c \in Callers : pc[c] = "done" => result[c] = Ok([type |-> "Status"])
    /\ \A c \in Callers : pc[c] \notin { "idle", "connect" } => Sent(c) \/ conn[c] = "open"
    /\ opened = Cardinality({ c \in Callers : conn[c] # "none" })
    /\ (\A c \in Callers : pc[c] = "done") \/ ENABLED NextLive

C8_Witness ==
    /\ \A c \in Callers : pc[c] = "done" /\ result[c] = Ok([type |-> "Status"])
    /\ opened = NCalls

(***************************************************************************)
(* C9.  As claimed: status() requests /localapi/v0/status, whois(address)  *)
(* requests /localapi/v0/whois?addr=<address> and certificate_pair(domain) *)
(* requests /localapi/v0/cert/<domain>?type=pair with the domain verbatim, *)
(* neither validated nor escaped.                                          *)
(***************************************************************************)
C9_TargetsVerbatim ==
    \A c \in Callers :
        op[c] # "none" =>
            /\ pc[c] # "panicked"
            /\ request[c].uri = DocumentedTarget(c)

(***************************************************************************)
(* C10.  As claimed: a connection that ends abnormally after the response  *)
(* was delivered to the caller does not turn the operation's result into   *)
(* an error, and one that ends before a response was obtained makes the    *)
(* call fail with a request error.                                         *)
(***************************************************************************)
C10_FailureAfterResponseUnseen ==
    \A c \in Callers :
        /\ (pc[c] = "done" /\ Answered(c) /\ response[c].status = 200) =>
               result[c] # Err("HyperError")
        /\ (pc[c] = "done" /\ conn[c] = "failed" /\ ~Answered(c)) =>
               result[c] = Err("HyperError")

(***************************************************************************)
(* C10 as amended.  A connection that ends abnormally after the response   *)
(* and its whole body were delivered does not turn the operation's result  *)
(* into an error (the failure is only logged); one that ends before the    *)
(* whole body came makes the call fail with Error::HyperError, and so does *)
(* one that ends before a response was obtained, which never hangs and     *)
(* never succeeds.                                                         *)
(***************************************************************************)
C10_FailureAfterBodyUnseen ==
    \A c \in Callers :
        /\ (pc[c] = "done" /\ Answered(c) /\ response[c].status = 200
              /\ response[c].complete) =>
               /\ result[c] # Err("HyperError")
               /\ op[c] = "status" /\ response[c].body = JsonBody("Status") => result[c].ok
        /\ (pc[c] = "done" /\ Answered(c) /\ response[c].status = 200
              /\ ~response[c].complete) =>
               conn[c] = "failed" /\ result[c] = Err("HyperError")
        /\ (pc[c] = "done" /\ conn[c] = "failed" /\ ~Answered(c)) =>
               result[c] = Err("HyperError")
        /\ (pc[c] = "send" /\ conn[c] = "failed" /\ ~Answered(c)) =>
               ENABLED SendErr(c)
        /\ conn[c] = "failed" => logged >= 1

C10_Witness ==
    \E c \in Callers :
        /\ pc[c] = "done"
        /\ conn[c] = "failed"
        /\ Answered(c)
        /\ response[c].complete
        /\ result[c] = Ok([type |-> "Status"])
        /\ logged = 1

=============================================================================
